---- MODULE Spec2Model ----
(***************************************************************************)
(* Model of the Japanese text analyzer MCP server (src/unnamed/part_002,   *)
(* the current index.ts): the tokenizer provider (initializeTokenizer and  *)
(* its module-level state), main(), the request handlers and the pure      *)
(* counting functions.                                                     *)
(*                                                                         *)
(* Six specifications share the module:                                    *)
(*   Spec      the server as a state machine: main, the kuromoji build,    *)
(*             and NumRequests concurrently handled tool requests;         *)
(*   FairSpec  Spec with the fairness of the Node.js event loop;           *)
(*   TextSpec  the pure text functions applied to every text over Chars    *)
(*             of length at most MaxLen;                                   *)
(*   ReportSpec the analysis applied to every text over Chars of length    *)
(*             at most MaxChars;                                           *)
(*   TokenSpec the functions that read tokens applied to every token       *)
(*             sequence of length at most MaxTokens, and to longer runs    *)
(*             of particles;                                               *)
(*   FileSpec  the path resolution and a file tool applied to every form   *)
(*             of path and every placement of the file.                    *)
(***************************************************************************)
EXTENDS Integers, Sequences, FiniteSets, TLC

\* ------------------------------------------------------------------ bounds
NumRequests == 2   \* request slots handled concurrently
MaxBuilds == 3     \* cap on the number of kuromoji build attempts
MaxLen == 4        \* longest text of TextSpec, in characters
MaxChars == 3      \* longest enumerated text of ReportSpec, in characters
MaxTokens == 3     \* longest enumerated token sequence of TokenSpec

NULL == 0

Requests == 1..NumRequests

VARIABLES
  tokenizerInstance,    \* NULL, or the id of the build whose tokenizer it holds
  initializingPromise,  \* NULL, or the id of the promise it references
  initializationError,  \* NULL, or the id of the build whose error it holds
  tokenizerReady,       \* BOOLEAN
  attempts,             \* attempts[i]: promise i and the build it wraps:
                        \*   status  of the promise: pending, fulfilled, rejected
                        \*   how     the build behaves (BuildOutcomes)
                        \*   built   of the build: pending, ok, err
  mainPc,               \* position of main()
  mainAwait,            \* what main() awaits while mainPc = "awaitInit"
  req,                  \* req[r]: the handler of request slot r
  txt,                  \* TextSpec, TokenSpec: the text under test
  toks,                 \* what tokenizer.tokenize(txt) returns
  file,                 \* FileSpec: the filePath argument and the file system
  out                   \* what the functions returned for txt

provider == <<tokenizerInstance, initializingPromise, initializationError,
              tokenizerReady, attempts>>
vars == <<tokenizerInstance, initializingPromise, initializationError,
          tokenizerReady, attempts, mainPc, mainAwait, req, txt, toks, file,
          out>>

\* --------------------------------------------------------------- characters
\* One representative per class the regular expressions of the code tell apart.
\*   sp U+0020, tab U+0009, nl U+000A, cr U+000D, ideosp U+3000 (all match \s)
\*   a ASCII letter, d ASCII digit, fwdigit U+FF11, hira U+3042, kata U+30AB,
\*   kanji U+732B, kuten U+3002 (the mark 。), dot U+002E,
\*   astral: a code point above U+FFFF (two UTF-16 code units), e.g. U+20BB7.
Chars ==
  {"sp", "tab", "nl", "cr", "ideosp", "a", "d", "fwdigit", "hira", "kata",
   "kanji", "kuten", "dot", "astral"}

\* The regular expression class \s (ECMAScript WhiteSpace and LineTerminator).
RegexS == {"sp", "tab", "nl", "cr", "ideosp"}

\* c matches /[\s\n\r]/
MatchesSpaceClass(c) == c \in RegexS \/ c = "nl" \/ c = "cr"

\* String.prototype.length counts UTF-16 code units.
Units(c) == IF c = "astral" THEN 2 ELSE 1

RECURSIVE UnitLength(_)
UnitLength(s) == IF s = <<>> THEN 0 ELSE Units(Head(s)) + UnitLength(Tail(s))

\* text.replace(/[\s\n\r]/, '') without the g flag: only the first match goes.
RECURSIVE StripSpaces_FirstOnly(_)
StripSpaces_FirstOnly(s) ==
  IF s = <<>> THEN <<>>
  ELSE IF MatchesSpaceClass(Head(s)) THEN Tail(s)
       ELSE <<Head(s)>> \o StripSpaces_FirstOnly(Tail(s))

\* text.replace(/[\s\n\r]/g, '')
StripSpaces(s) == SelectSeq(s, LAMBDA c : ~MatchesSpaceClass(c))

\* ------------------------------------------------------- tokenizer provider
\* The module-level state of the provider as one record, so that
\* initializeTokenizer is a function from state to state and return value.
Cur ==
  [tokenizerInstance |-> tokenizerInstance,
   initializingPromise |-> initializingPromise,
   initializationError |-> initializationError,
   tokenizerReady |-> tokenizerReady,
   attempts |-> attempts]

\* How kuromoji.builder(...).build(cb) can behave inside the executor: it
\* returns and calls back later ("async"), it throws ("syncThrow"), or it calls
\* back before returning, with an error or with a tokenizer.
BuildOutcomes == {"async", "syncThrow", "syncCallbackError", "syncCallbackOk"}

\* The error branch without "initializingPromise = null".
CallbackError_NoReset(st, id) ==
  [st EXCEPT !.initializationError = id,
             !.tokenizerReady = FALSE,
             !.attempts[id].status = "rejected"]

\* The error branch resolving the promise with undefined instead of rejecting.
CallbackError_Resolves(st, id) ==
  [st EXCEPT !.initializationError = id,
             !.initializingPromise = NULL,
             !.tokenizerReady = FALSE,
             !.attempts[id].status = "fulfilled"]

\* The build callback's error branch: record the error, reset the marker,
\* reject promise id.
CallbackError(st, id) ==
  [st EXCEPT !.initializationError = id,
             !.initializingPromise = NULL,
             !.tokenizerReady = FALSE,
             !.attempts[id].status = "rejected"]

\* The success branch without resolve(tokenizer): the promise stays pending.
CallbackOk_NeverResolves(st, id) ==
  [st EXCEPT !.tokenizerInstance = id,
             !.tokenizerReady = TRUE]

\* The success branch without "tokenizerReady = true".
CallbackOk_NoFlag(st, id) ==
  [st EXCEPT !.tokenizerInstance = id,
             !.attempts[id].status = "fulfilled"]

\* The success branch clearing the recorded error.
CallbackOk_ClearsError(st, id) ==
  [st EXCEPT !.tokenizerInstance = id,
             !.tokenizerReady = TRUE,
             !.initializationError = NULL,
             !.attempts[id].status = "fulfilled"]

\* The build callback's success branch: store the tokenizer, resolve promise id.
CallbackOk(st, id) ==
  [st EXCEPT !.tokenizerInstance = id,
             !.tokenizerReady = TRUE,
             !.attempts[id].status = "fulfilled"]

\* The catch block of the executor: the builder threw.
CatchThrow(st, id) ==
  [st EXCEPT !.initializationError = id,
             !.initializingPromise = NULL,
             !.tokenizerReady = FALSE,
             !.attempts[id].status = "rejected"]

\* What the build has come to when the executor returns.
BuiltBy(outcome) ==
  CASE outcome = "async" -> "pending"
    [] outcome = "syncCallbackOk" -> "ok"
    [] OTHER -> "err"

\* The executor passed to new Promise: it runs to completion inside the
\* constructor, before the constructed promise is assigned to anything.
Executor(st, id, outcome) ==
  LET s0 == [st EXCEPT !.attempts =
               Append(@, [status |-> "pending", how |-> outcome,
                          built |-> BuiltBy(outcome)])]
  IN CASE outcome = "async" -> s0
       [] outcome = "syncThrow" -> CatchThrow(s0, id)
       [] outcome = "syncCallbackError" -> CallbackError(s0, id)
       [] outcome = "syncCallbackOk" -> CallbackOk(s0, id)

\* initializeTokenizer() without the "if (initializingPromise)" early return.
InitializeTokenizer_NoInFlightGuard(st, outcome) ==
  IF st.tokenizerInstance # NULL
  THEN [st |-> st, ret |-> [kind |-> "value", id |-> st.tokenizerInstance]]
  ELSE LET id == Len(st.attempts) + 1
           s1 == Executor(st, id, outcome)
           s2 == [s1 EXCEPT !.initializingPromise = id]
       IN [st |-> s2, ret |-> [kind |-> "promise", id |-> id]]

\* initializeTokenizer() without either early return: every call builds.
InitializeTokenizer_AlwaysBuild(st, outcome) ==
  LET id == Len(st.attempts) + 1
      s1 == Executor(st, id, outcome)
      s2 == [s1 EXCEPT !.initializingPromise = id]
  IN [st |-> s2, ret |-> [kind |-> "promise", id |-> id]]

\* initializeTokenizer() dropping the settled promise when it returns the
\* stored tokenizer.
InitializeTokenizer_ResetsPromise(st, outcome) ==
  IF st.tokenizerInstance # NULL
  THEN [st |-> [st EXCEPT !.initializingPromise = NULL],
        ret |-> [kind |-> "value", id |-> st.tokenizerInstance]]
  ELSE IF st.initializingPromise # NULL
  THEN [st |-> st, ret |-> [kind |-> "promise", id |-> st.initializingPromise]]
  ELSE LET id == Len(st.attempts) + 1
           s1 == Executor(st, id, outcome)
           s2 == [s1 EXCEPT !.initializingPromise = id]
       IN [st |-> s2, ret |-> [kind |-> "promise", id |-> id]]

\* initializeTokenizer(): the new state and what the caller awaits, either the
\* tokenizer itself ("value") or promise id ("promise").  The async wrapper
\* promise adopts the returned promise, so awaiting it is awaiting promise id.
InitializeTokenizer(st, outcome) ==
  IF st.tokenizerInstance # NULL
  THEN [st |-> st, ret |-> [kind |-> "value", id |-> st.tokenizerInstance]]
  ELSE IF st.initializingPromise # NULL
  THEN [st |-> st, ret |-> [kind |-> "promise", id |-> st.initializingPromise]]
  ELSE LET id == Len(st.attempts) + 1
           s1 == Executor(st, id, outcome)
           \* the assignment initializingPromise = new Promise(...) completes
           \* after the executor has returned
           s2 == [s1 EXCEPT !.initializingPromise = id]
       IN [st |-> s2, ret |-> [kind |-> "promise", id |-> id]]

\* An await that never suspends.
AwaitStatus_NeverPending(st, ret) ==
  IF ret.kind = "value" THEN "fulfilled"
  ELSE IF st.attempts[ret.id].status = "rejected" THEN "rejected"
  ELSE "fulfilled"

\* What an awaiter of ret sees in state st: "pending", "fulfilled", "rejected".
AwaitStatus(st, ret) ==
  IF ret.kind = "value" THEN "fulfilled" ELSE st.attempts[ret.id].status

\* The tokenizer a fulfilled await yields (build id of the tokenizer).
AwaitValue(ret) == ret.id

SetProvider(st) ==
  /\ tokenizerInstance' = st.tokenizerInstance
  /\ initializingPromise' = st.initializingPromise
  /\ initializationError' = st.initializationError
  /\ tokenizerReady' = st.tokenizerReady
  /\ attempts' = st.attempts

NoAwait == [kind |-> "none", id |-> NULL]

Alive == mainPc # "exited"

\* The builds whose callback is still to come.
InFlight == {i \in 1..Len(attempts) : attempts[i].built = "pending"}

\* -------------------------------------------------------- counting functions
\* String.prototype.trim(): strips WhiteSpace and LineTerminator from both
\* ends, the same characters \s matches.
RECURSIVE TrimStart(_)
TrimStart(s) ==
  IF s # <<>> /\ Head(s) \in RegexS THEN TrimStart(Tail(s)) ELSE s

RECURSIVE TrimEnd(_)
TrimEnd(s) ==
  IF s # <<>> /\ s[Len(s)] \in RegexS
  THEN TrimEnd(SubSeq(s, 1, Len(s) - 1)) ELSE s

Trim(s) == TrimEnd(TrimStart(s))

\* s.split(/\s+/): the pieces between the maximal runs of \s.  cur is the
\* piece being read.  A string without a match is returned whole, the empty
\* string included ("".split(/\s+/) is [""]); a separator at either end
\* leaves an empty piece there.
RECURSIVE SplitFrom(_, _)
SplitFrom(s, cur) ==
  IF s = <<>> THEN <<cur>>
  ELSE IF Head(s) \in RegexS
       THEN <<cur>> \o SplitFrom(TrimStart(s), <<>>)
       ELSE SplitFrom(Tail(s), Append(cur, Head(s)))

SplitOnSpaces(s) == SplitFrom(s, <<>>)

\* The count in code points instead of code units.
EffectiveCharCount_CodePoints(text) == Len(StripSpaces(text))

\* countTextCharsImpl: the length, in UTF-16 code units, of the text without
\* the characters matching /[\s\n\r]/.  Nothing in the try block can throw.
EffectiveCharCount(text) == UnitLength(StripSpaces(text))

CountTextCharsImpl(text) ==
  [isError |-> FALSE, kind |-> "chars", count |-> EffectiveCharCount(text)]

\* The word count without trim().
EnglishWordCount_NoTrim(text) == Len(SplitOnSpaces(text))

\* countTextWordsImpl, language 'en': text.trim().split(/\s+/).length
EnglishWordCount(text) == Len(SplitOnSpaces(Trim(text)))

CountTextWordsEn(text) ==
  [isError |-> FALSE, kind |-> "words", language |-> "en",
   count |-> EnglishWordCount(text)]

\* ------------------------------------------------------------------ tokens
\* A kuromoji token, by the fields the code reads.
\*   pos: 名詞 "noun", 助詞 "particle", 記号 "symbol", 空白 "blank"
\*   pos_detail_1: 句点 "period", 読点 "comma", or "other"
Token(pos, detail, surface, basic) ==
  [pos |-> pos, pos_detail_1 |-> detail, surface_form |-> surface,
   basic_form |-> basic]

\* The filter excluding only the symbol tag.
IsMeaningfulToken_SymbolOnly(t) == ~(t.pos = "symbol")

\* The filter of countTextWordsImpl, language 'ja'.
IsMeaningfulToken(t) == ~(t.pos = "symbol" \/ t.pos = "blank")

JapaneseWordCount(tokens) == Len(SelectSeq(tokens, IsMeaningfulToken))

\* The response sent when awaiting initializeTokenizer() throws.
InitFailedResponse ==
  [isError |-> TRUE, kind |-> "error", message |-> "initFailed"]

\* The response of the outer catch of countTextWordsImpl / analyzeTextImpl.
ExceptionResponse ==
  [isError |-> TRUE, kind |-> "error", message |-> "exception"]

\* What tokenizer.tokenize(text) does: it returns tokens or throws.
Tokenized(tokens) == [throws |-> FALSE, tokens |-> tokens]
TokenizeThrows == [throws |-> TRUE, tokens |-> <<>>]

\* countTextWordsImpl, language 'ja', after the await.  status is the outcome
\* of the await, tk what tokenizer.tokenize(text) does.
CountTextWordsJa(status, tk) ==
  IF status = "rejected" THEN InitFailedResponse
  ELSE IF tk.throws THEN ExceptionResponse
  ELSE [isError |-> FALSE, kind |-> "words", language |-> "ja",
        count |-> JapaneseWordCount(tk.tokens)]

\* ------------------------------------------------------------ metrics engine
\* text.split(/[。.!?！？]/g): every terminator character is a separator.
Terminators == {"kuten", "dot"}

RECURSIVE SplitOnTerminatorsFrom(_, _)
SplitOnTerminatorsFrom(s, cur) ==
  IF s = <<>> THEN <<cur>>
  ELSE IF Head(s) \in Terminators
       THEN <<cur>> \o SplitOnTerminatorsFrom(Tail(s), <<>>)
       ELSE SplitOnTerminatorsFrom(Tail(s), Append(cur, Head(s)))

\* The pieces without the filter.
Sentences_KeepBlank(text) == SplitOnTerminatorsFrom(text, <<>>)

\* The sentences: the pieces s with s.trim().length > 0.
Sentences(text) ==
  SelectSeq(SplitOnTerminatorsFrom(text, <<>>), LAMBDA p : Len(Trim(p)) > 0)

\* The for-of loop over the text visits code points; the first matching
\* branch of the if/else-if chain tallies the character, whitespace falls
\* through every branch.
ScriptTypes == <<"hiragana", "katakana", "kanji", "alphabet", "digit", "other">>

\* The chain with an unconditional final else.
ScriptOf_SpaceIsOther(c) ==
  CASE c = "hira" -> "hiragana"
    [] c = "kata" -> "katakana"
    [] c = "kanji" -> "kanji"
    [] c = "a" -> "alphabet"
    [] c \in {"d", "fwdigit"} -> "digit"
    [] OTHER -> "other"

ScriptOf(c) ==
  CASE c = "hira" -> "hiragana"
    [] c = "kata" -> "katakana"
    [] c = "kanji" -> "kanji"
    [] c = "a" -> "alphabet"
    [] c \in {"d", "fwdigit"} -> "digit"
    [] c \notin RegexS -> "other"
    [] OTHER -> "none"

ScriptCount(text, type) ==
  Len(SelectSeq(text, LAMBDA c : ScriptOf(c) = type))

\* scriptCounts after the loop, in the key order of the object literal.
ScriptCounts(text) ==
  [i \in 1..Len(ScriptTypes) |-> ScriptCount(text, ScriptTypes[i])]

\* Object.values(scriptCounts).reduce((a, b) => a + b, 0)
RECURSIVE SumScripts(_, _)
SumScripts(counts, i) ==
  IF i > Len(counts) THEN 0 ELSE counts[i] + SumScripts(counts, i + 1)

TotalNonSpaceChars(counts) == SumScripts(counts, 1)

\* The operators below name the value of their argument with a variable
\* bound over a singleton (v \in {s}), so that it is computed once.

\* obj[key] = (obj[key] || 0) + 1 for each key of a list, read back with
\* Object.entries: one entry per distinct key, in order of first insertion,
\* counting the occurrences of the key.
TallyOf(keys) ==
  LET firsts == {i \in 1..Len(keys) : \A j \in 1..(i - 1) : keys[j] # keys[i]}
      nth(n) == CHOOSE i \in firsts : Cardinality({j \in firsts : j < i}) = n - 1
  IN [n \in 1..Cardinality(firsts) |->
        [key |-> keys[nth(n)],
         count |-> Cardinality({j \in 1..Len(keys) : keys[j] = keys[nth(n)]})]]

\* A list of counts with one entry per element instead of one per key.
Tally_PerToken(keys) == [n \in 1..Len(keys) |-> [key |-> keys[n], count |-> 1]]

Tally(keys) == CHOOSE r \in {TallyOf(v) : v \in {keys}} : TRUE

\* entries.sort((a, b) => b[1] - a[1]): descending by count, and stable, so
\* entries of equal count keep their insertion order.
SortOf(entries) ==
  LET before(j, i) ==
        \/ entries[j].count > entries[i].count
        \/ entries[j].count = entries[i].count /\ j < i
      rank(i) == Cardinality({j \in 1..Len(entries) : before(j, i)}) + 1
  IN [n \in 1..Len(entries) |->
        entries[CHOOSE i \in 1..Len(entries) : rank(i) = n]]

\* The entries left in insertion order.
SortByCountDesc_Unsorted(entries) == entries

SortByCountDesc(entries) == CHOOSE r \in {SortOf(v) : v \in {entries}} : TRUE

\* array.slice(0, n)
SliceTo(s, n) ==
  CHOOSE r \in {SubSeq(v, 1, IF Len(v) < n THEN Len(v) ELSE n) : v \in {s}} :
    TRUE

TopParticles == 10

\* n.toFixed(2) of the quotient num / den, in hundredths.  JavaScript division
\* does not throw: 0 / 0 is NaN and x / 0 is Infinity, printed as such.
Fixed2(num, den) ==
  IF den = 0
  THEN [form |-> IF num = 0 THEN "NaN" ELSE "Infinity", hundredths |-> 0]
  ELSE [form |-> "number", hundredths |-> (200 * num + den) \div (2 * den)]

\* ((count / total) * 100).toFixed(2)
Percent(count, total) == Fixed2(100 * count, total)

ZeroFixed == [form |-> "number", hundredths |-> 0]

\* The quotient without the test of totalSentences.
PerSentence_Unguarded(num, totalSentences) == Fixed2(num, totalSentences)

\* totalSentences > 0 ? (num / totalSentences).toFixed(2) : '0.00'
PerSentence(num, totalSentences) ==
  IF totalSentences > 0 THEN Fixed2(num, totalSentences) ELSE ZeroFixed

\* /^[゠-ヿ]+$/.test(surface_form)
KatakanaLetters == {"KA", "ME"}
IsKatakanaWord(t) ==
  /\ t.surface_form # <<>>
  /\ \A i \in 1..Len(t.surface_form) : t.surface_form[i] \in KatakanaLetters

IsPunctuation(t) ==
  t.pos = "symbol" /\ (t.pos_detail_1 = "period" \/ t.pos_detail_1 = "comma")

\* String.prototype.includes
Includes(str, sub) ==
  \E i \in 0..(Len(str) - Len(sub)) : SubSeq(str, i + 1, i + Len(sub)) = sub

\* です ます でした ました ございます いただく なさる れる られる どうぞ お ご
HonorificExpressions ==
  << <<"de", "su">>, <<"ma", "su">>, <<"de", "shi", "ta">>,
     <<"ma", "shi", "ta">>, <<"go", "za", "i", "ma", "su">>,
     <<"i", "ta", "da", "ku">>, <<"na", "sa", "ru">>, <<"re", "ru">>,
     <<"ra", "re", "ru">>, <<"do", "u", "zo">>, <<"o">>, <<"go">> >>

\* The test reading the surface form only.
IsHonorific_SurfaceOnly(t) ==
  \E k \in 1..Len(HonorificExpressions) :
    Includes(t.surface_form, HonorificExpressions[k])

IsHonorific(t) ==
  \E k \in 1..Len(HonorificExpressions) :
    \/ Includes(t.surface_form, HonorificExpressions[k])
    \/ Includes(t.basic_form, HonorificExpressions[k])

\* tokens.map(t => t.pos) and tokens.map(t => t.surface_form): the keys the
\* forEach loop tallies.
PosKeys(tokens) == [i \in 1..Len(tokens) |-> tokens[i].pos]
SurfaceKeys(tokens) == [i \in 1..Len(tokens) |-> tokens[i].surface_form]

\* Object.entries(counts).map(([key, count]) => `${key}: ${percent}%`)
RatioEntries(entries, total) ==
  CHOOSE r \in
    {[i \in 1..Len(v) |->
        [key |-> v[i].key, count |-> v[i].count,
         value |-> Percent(v[i].count, total)]] : v \in {entries}} : TRUE

\* Object.entries(scriptCounts).map(...)
ScriptEntries(text) ==
  CHOOSE r \in
    {[i \in 1..Len(ScriptTypes) |->
        [key |-> ScriptTypes[i], count |-> c[i],
         value |-> Percent(c[i], TotalNonSpaceChars(c))]] :
       c \in {ScriptCounts(text)}} : TRUE

\* uniqueWords as a list: one element per token.
UniqueWords_AllTokens(tokens) == 1..Len(tokens)

\* uniqueWords after the loop: the set of the base forms.
UniqueWords(tokens) == {tokens[i].basic_form : i \in 1..Len(tokens)}

\* The keys of analysisResults.
MetricNames ==
  {"average_sentence_length", "average_morphemes_per_sentence", "pos_ratio",
   "particle_ratio", "script_type_ratio", "vocabulary_diversity",
   "katakana_word_ratio", "honorific_frequency", "punctuation_per_sentence"}

\* The body of the try block of analyzeTextImpl after tokenize has returned:
\* the three basic counts and the analysisResults object.
AnalysisReport(text, tokens) ==
  LET totalChars == UnitLength(StripSpaces(text))
      totalSentences == Len(Sentences(text))
      totalMorphemes == Len(tokens)
      posCounts == Tally(PosKeys(tokens))
      particles == SelectSeq(tokens, LAMBDA t : t.pos = "particle")
      particleCounts == Tally(SurfaceKeys(particles))
      totalParticles == Len(particles)
      uniqueWords == UniqueWords(tokens)
      katakanaWords == Len(SelectSeq(tokens, IsKatakanaWord))
      punctuationCount == Len(SelectSeq(tokens, IsPunctuation))
      honorificCount == Len(SelectSeq(tokens, IsHonorific))
      topParticles == SliceTo(SortByCountDesc(particleCounts), TopParticles)
  IN [isError |-> FALSE,
      kind |-> "report",
      totalChars |-> totalChars,
      totalSentences |-> totalSentences,
      totalMorphemes |-> totalMorphemes,
      metrics |->
        [average_sentence_length |-> PerSentence(totalChars, totalSentences),
         average_morphemes_per_sentence |->
           PerSentence(totalMorphemes, totalSentences),
         pos_ratio |-> RatioEntries(posCounts, totalMorphemes),
         particle_ratio |-> RatioEntries(topParticles, totalParticles),
         script_type_ratio |-> ScriptEntries(text),
         vocabulary_diversity |->
           Percent(Cardinality(uniqueWords), totalMorphemes),
         katakana_word_ratio |-> Percent(katakanaWords, totalMorphemes),
         honorific_frequency |-> PerSentence(honorificCount, totalSentences),
         punctuation_per_sentence |->
           PerSentence(punctuationCount, totalSentences)]]

\* analyzeTextImpl answering a failed initialization with the counts that
\* need no tokenizer.
AnalyzeTextImpl_PartialOnFailure(status, text, tk) ==
  IF status = "rejected"
  THEN [isError |-> TRUE, kind |-> "report",
        totalChars |-> UnitLength(StripSpaces(text)),
        totalSentences |-> Len(Sentences(text))]
  ELSE IF tk.throws THEN ExceptionResponse
  ELSE AnalysisReport(text, tk.tokens)

\* analyzeTextImpl without the try/catch around the await: after a failed
\* initialization tokenize is called on undefined, which the outer catch
\* answers.
AnalyzeTextImpl_NoInitCatch(status, text, tk) ==
  IF status = "rejected" \/ tk.throws THEN ExceptionResponse
  ELSE AnalysisReport(text, tk.tokens)

\* analyzeTextImpl after the await.  status is the outcome of awaiting
\* initializeTokenizer(), tk what tokenizer.tokenize(text) does.
AnalyzeTextImpl(status, text, tk) ==
  IF status = "rejected" THEN InitFailedResponse
  ELSE IF tk.throws THEN ExceptionResponse
  ELSE AnalysisReport(text, tk.tokens)

\* ------------------------------------------------------------ sample inputs
\* The tokens the requests of Spec are answered with.
TokNeko == Token("noun", "other", <<"neko">>, <<"neko">>)
TokHa == Token("particle", "other", <<"ha">>, <<"ha">>)
TokDesu == Token("auxiliary", "other", <<"de", "su">>, <<"de", "su">>)
TokKamera == Token("noun", "other", <<"KA", "ME">>, <<"KA", "ME">>)
TokKuten == Token("symbol", "period", <<"maru">>, <<"maru">>)
TokBlank == Token("blank", "other", <<"space">>, <<"space">>)

\* A request's input: the text, and the tokens kuromoji returns for it.
Input(text, tokens) == [text |-> text, tokens |-> tokens]

SampleInputs ==
  {Input(<<>>, <<>>),
   Input(<<"kanji", "hira", "sp", "kata", "hira", "kuten">>,
         <<TokNeko, TokHa, TokBlank, TokKamera, TokDesu, TokKuten>>)}

\* -------------------------------------------------------------------- files
\* The shape of the filePath argument: "wsl" matches /^\/[a-zA-Z]\// (such as
\* /c/Users/a.txt), "absolute" is any other path with path.isAbsolute, and
\* "relative" is the rest, a bare file name included.
PathForms == {"wsl", "absolute", "relative"}

\* Where a file of the given name may exist: at the path converted to the
\* Windows form, at the path as given, under the working directory, the home
\* directory, its Desktop and its Documents directory.
Locations == {"converted", "asGiven", "cwd", "home", "desktop", "documents"}

\* A file request: the form of filePath, the locations where fs.existsSync
\* finds the file, and whether fs.readFileSync of the file returns.
FileCase(form, exists, readable) ==
  [form |-> form, exists |-> exists, readable |-> readable]

NoFile == FileCase("none", {}, FALSE)

Found(at) == [ok |-> TRUE, at |-> at]
NotFound == [ok |-> FALSE, at |-> "none"]

\* resolveFilePath(filePath): the location it returns, or NotFound when it
\* throws.  A path of the wsl form is absolute as well.
ResolveFilePath(form, exists) ==
  IF form = "wsl" /\ "converted" \in exists THEN Found("converted")
  ELSE IF form \in {"wsl", "absolute"}
  THEN IF "asGiven" \in exists THEN Found("asGiven") ELSE NotFound
  ELSE IF "cwd" \in exists THEN Found("cwd") ELSE NotFound

\* resolveFilePath and fs.readFileSync inside the try of a file tool: one of
\* them throws.
FileThrows(f) == ~(ResolveFilePath(f.form, f.exists).ok /\ f.readable)

\* The response of the catch of a file tool.
FileErrorResponse ==
  [isError |-> TRUE, kind |-> "error", message |-> "fileRead"]

\* What leaves a handler that lets the exception through.
Uncaught == [isError |-> FALSE, kind |-> "uncaught"]

\* A file tool without its try/catch.
FileTool_NoCatch(f, resp) == IF FileThrows(f) THEN Uncaught ELSE resp

\* The try/catch of the tools count_chars, count_words and analyze_file around
\* resolving, reading and measuring: the response resp of the measurement, or
\* the file error.
FileTool(f, resp) == IF FileThrows(f) THEN FileErrorResponse ELSE resp

\* The file requests of Spec: a file found under the working directory, a bare
\* name that exists under the home directory only, an absolute path that
\* cannot be read, and a path of the wsl form.
SampleFiles ==
  {FileCase("relative", {"cwd"}, TRUE), FileCase("relative", {"home"}, TRUE),
   FileCase("absolute", {"asGiven"}, FALSE),
   FileCase("wsl", {"converted"}, TRUE)}

\* ------------------------------------------------------------------- server
NoOutput == [isError |-> FALSE, kind |-> "none"]

\* What TextSpec and TokenSpec record: the response of each function.
NoOutputs ==
  [chars |-> NoOutput, words |-> NoOutput, wordsJa |-> NoOutput,
   report |-> NoOutput, resolved |-> NoOutput]

IdleRequest ==
  [pc |-> "idle", kind |-> "none", input |-> Input(<<>>, <<>>),
   await |-> NoAwait, tokenizer |-> NULL, resp |-> NoOutput]

Init ==
  /\ tokenizerInstance = NULL
  /\ initializingPromise = NULL
  /\ initializationError = NULL
  /\ tokenizerReady = FALSE
  /\ attempts = <<>>
  /\ mainPc = "init"
  /\ mainAwait = NoAwait
  /\ req = [r \in Requests |-> IdleRequest]
  /\ txt = <<>>
  /\ toks = <<>>
  /\ file = NoFile
  /\ out = NoOutputs

\* main(): await initializeTokenizer() inside try, up to the suspension.
MainCallInit(outcome) ==
  /\ mainPc = "init"
  /\ LET r == InitializeTokenizer(Cur, outcome)
     IN /\ Len(r.st.attempts) <= MaxBuilds
        /\ SetProvider(r.st)
        /\ mainAwait' = r.ret
  /\ mainPc' = "awaitInit"
  /\ UNCHANGED <<req, txt, toks, file, out>>

\* main() without the inner try/catch: the rejection reaches the outer catch,
\* which calls process.exit(1).
MainAfterInit_NoCatch(status) ==
  IF status = "rejected" THEN "exited" ELSE "starting"

\* Where main() continues once the awaited initialization has settled:
\* the try logs and falls through, the catch logs and falls through.
MainAfterInit(status) == "starting"

MainResume ==
  /\ mainPc = "awaitInit"
  /\ AwaitStatus(Cur, mainAwait) # "pending"
  /\ mainPc' = MainAfterInit(AwaitStatus(Cur, mainAwait))
  /\ mainAwait' = NoAwait
  /\ UNCHANGED <<provider, req, txt, toks, file, out>>

\* new JapaneseTextAnalyzer(); await server.start(): setupTools() and
\* server.connect(transport).  If start() throws, main() calls process.exit(1).
ServerStart(connected) ==
  /\ mainPc = "starting"
  /\ mainPc' = IF connected THEN "serving" ELSE "exited"
  /\ UNCHANGED <<provider, mainAwait, req, txt, toks, file, out>>

\* kuromoji calls the build callback of the in-flight build id.
BuildCallback(id, ok) ==
  /\ Alive
  /\ id \in InFlight
  /\ LET st == IF ok THEN CallbackOk(Cur, id) ELSE CallbackError(Cur, id)
     IN SetProvider([st EXCEPT !.attempts[id].built =
                                  IF ok THEN "ok" ELSE "err"])
  /\ UNCHANGED <<mainPc, mainAwait, req, txt, toks, file, out>>

\* The character count calling initializeTokenizer() on its way.
HandleCountChars_Acquires(r, in) ==
  /\ mainPc = "serving"
  /\ req[r].pc = "idle"
  /\ LET a == InitializeTokenizer(Cur, "async")
     IN /\ Len(a.st.attempts) <= MaxBuilds
        /\ SetProvider(a.st)
  /\ req' = [req EXCEPT ![r] =
       [pc |-> "done", kind |-> "count_chars", input |-> in,
        await |-> NoAwait, tokenizer |-> NULL,
        resp |-> CountTextCharsImpl(in.text)]]
  /\ UNCHANGED <<mainPc, mainAwait, txt, toks, file, out>>

\* Tool count_clipboard_chars: countTextCharsImpl(text), no suspension.
HandleCountChars(r, in) ==
  /\ mainPc = "serving"
  /\ req[r].pc = "idle"
  /\ req' = [req EXCEPT ![r] =
       [pc |-> "done", kind |-> "count_chars", input |-> in,
        await |-> NoAwait, tokenizer |-> NULL,
        resp |-> CountTextCharsImpl(in.text)]]
  /\ UNCHANGED <<provider, mainPc, mainAwait, txt, toks, file, out>>

\* Tool count_clipboard_words with language 'en': no suspension.
HandleCountWordsEn(r, in) ==
  /\ mainPc = "serving"
  /\ req[r].pc = "idle"
  /\ req' = [req EXCEPT ![r] =
       [pc |-> "done", kind |-> "count_words_en", input |-> in,
        await |-> NoAwait, tokenizer |-> NULL,
        resp |-> CountTextWordsEn(in.text)]]
  /\ UNCHANGED <<provider, mainPc, mainAwait, txt, toks, file, out>>

\* Tools count_clipboard_words with language 'ja' and analyze_text, up to
\* the suspension at await initializeTokenizer().
CallTokenizerTool(r, kind, in, outcome) ==
  /\ mainPc = "serving"
  /\ req[r].pc = "idle"
  /\ LET a == InitializeTokenizer(Cur, outcome)
     IN /\ Len(a.st.attempts) <= MaxBuilds
        /\ SetProvider(a.st)
        /\ req' = [req EXCEPT ![r] =
             [pc |-> "awaiting", kind |-> kind, input |-> in,
              await |-> a.ret, tokenizer |-> NULL, resp |-> NoOutput]]
  /\ UNCHANGED <<mainPc, mainAwait, txt, toks, file, out>>

\* The text a file tool measures: fileContent, which is not assigned when
\* resolving or reading throws.
FileContent(f, in) == IF FileThrows(f) THEN Input(<<>>, <<>>) ELSE in

\* Tool count_chars: resolve filePath, read the file, countTextCharsImpl.
\* The field kind of a request names the operation, which the file tool and
\* the text tool share.
HandleFileCountChars(r, in, f) ==
  /\ mainPc = "serving"
  /\ req[r].pc = "idle"
  /\ req' = [req EXCEPT ![r] =
       [pc |-> "done", kind |-> "count_chars", input |-> FileContent(f, in),
        await |-> NoAwait, tokenizer |-> NULL,
        resp |-> FileTool(f, CountTextCharsImpl(in.text))]]
  /\ UNCHANGED <<provider, mainPc, mainAwait, txt, toks, file, out>>

\* Tool count_words with language 'en'.
HandleFileCountWordsEn(r, in, f) ==
  /\ mainPc = "serving"
  /\ req[r].pc = "idle"
  /\ req' = [req EXCEPT ![r] =
       [pc |-> "done", kind |-> "count_words_en", input |-> FileContent(f, in),
        await |-> NoAwait, tokenizer |-> NULL,
        resp |-> FileTool(f, CountTextWordsEn(in.text))]]
  /\ UNCHANGED <<provider, mainPc, mainAwait, txt, toks, file, out>>

\* Tools count_words with language 'ja' and analyze_file: when resolving or
\* reading throws, the catch answers; otherwise the handler runs up to the
\* suspension at await initializeTokenizer().
CallTokenizerFileTool(r, kind, in, f, outcome) ==
  /\ mainPc = "serving"
  /\ req[r].pc = "idle"
  /\ IF FileThrows(f)
     THEN /\ req' = [req EXCEPT ![r] =
               [pc |-> "done", kind |-> kind, input |-> FileContent(f, in),
                await |-> NoAwait, tokenizer |-> NULL,
                resp |-> FileTool(f, NoOutput)]]
          /\ UNCHANGED provider
     ELSE LET a == InitializeTokenizer(Cur, outcome)
          IN /\ Len(a.st.attempts) <= MaxBuilds
             /\ SetProvider(a.st)
             /\ req' = [req EXCEPT ![r] =
                  [pc |-> "awaiting", kind |-> kind, input |-> in,
                   await |-> a.ret, tokenizer |-> NULL, resp |-> NoOutput]]
  /\ UNCHANGED <<mainPc, mainAwait, txt, toks, file, out>>

\* The rest of the handler once the awaited promise has settled: the local
\* variable tokenizer takes the awaited value, or the catch returns.
ToolResponse(kind, status, in, tk) ==
  IF kind = "count_words_ja"
  THEN CountTextWordsJa(status, tk)
  ELSE AnalyzeTextImpl(status, in.text, tk)

ResumeTokenizerTool(r, throws) ==
  /\ Alive
  /\ req[r].pc = "awaiting"
  /\ AwaitStatus(Cur, req[r].await) # "pending"
  /\ req' = [req EXCEPT ![r].pc = "done",
                        ![r].tokenizer =
       IF AwaitStatus(Cur, req[r].await) = "fulfilled"
       THEN AwaitValue(req[r].await) ELSE NULL,
                        ![r].resp =
       ToolResponse(req[r].kind, AwaitStatus(Cur, req[r].await), req[r].input,
                    IF throws THEN TokenizeThrows
                    ELSE Tokenized(req[r].input.tokens))]
  /\ UNCHANGED <<provider, mainPc, mainAwait, txt, toks, file, out>>

\* The response is sent; the slot takes the next request.
Deliver(r) ==
  /\ Alive
  /\ req[r].pc = "done"
  /\ req' = [req EXCEPT ![r] = IdleRequest]
  /\ UNCHANGED <<provider, mainPc, mainAwait, txt, toks, file, out>>

Next ==
  \/ \E outcome \in BuildOutcomes : MainCallInit(outcome)
  \/ MainResume
  \/ \E connected \in BOOLEAN : ServerStart(connected)
  \/ \E id \in 1..MaxBuilds, ok \in BOOLEAN : BuildCallback(id, ok)
  \/ \E r \in Requests, in \in SampleInputs : HandleCountChars(r, in)
  \/ \E r \in Requests, in \in SampleInputs : HandleCountWordsEn(r, in)
  \/ \E r \in Requests, kind \in {"count_words_ja", "analyze_text"},
        in \in SampleInputs, outcome \in BuildOutcomes :
       CallTokenizerTool(r, kind, in, outcome)
  \/ \E r \in Requests, in \in SampleInputs, f \in SampleFiles :
       HandleFileCountChars(r, in, f)
  \/ \E r \in Requests, in \in SampleInputs, f \in SampleFiles :
       HandleFileCountWordsEn(r, in, f)
  \/ \E r \in Requests, kind \in {"count_words_ja", "analyze_text"},
        in \in SampleInputs, f \in SampleFiles, outcome \in BuildOutcomes :
       CallTokenizerFileTool(r, kind, in, f, outcome)
  \/ \E r \in Requests, throws \in BOOLEAN : ResumeTokenizerTool(r, throws)
  \/ \E r \in Requests : Deliver(r)

Spec == Init /\ [][Next]_vars

\* The event loop runs every ready continuation and kuromoji calls back for
\* every build it was asked for.
Fairness ==
  /\ WF_vars(MainResume)
  /\ WF_vars(\E connected \in BOOLEAN : ServerStart(connected))
  /\ WF_vars(\E id \in 1..MaxBuilds, ok \in BOOLEAN : BuildCallback(id, ok))
  /\ \A r \in Requests :
       WF_vars(\E throws \in BOOLEAN : ResumeTokenizerTool(r, throws))

FairSpec == Spec /\ Fairness

\* -------------------------------------------------------------- text checks
\* Every text of at most MaxLen characters.
Texts == UNION {[1..n -> Chars] : n \in 0..MaxLen}

TextInit ==
  /\ tokenizerInstance = NULL
  /\ initializingPromise = NULL
  /\ initializationError = NULL
  /\ tokenizerReady = FALSE
  /\ attempts = <<>>
  /\ mainPc = "serving"
  /\ mainAwait = NoAwait
  /\ req = [r \in Requests |-> IdleRequest]
  /\ txt \in Texts
  /\ toks = <<>>
  /\ file = NoFile
  /\ out = NoOutputs

TextCountChars ==
  /\ out.chars.kind = "none"
  /\ out' = [out EXCEPT !.chars = CountTextCharsImpl(txt)]
  /\ UNCHANGED <<provider, mainPc, mainAwait, req, txt, toks, file>>

TextCountWordsEn ==
  /\ out.words.kind = "none"
  /\ out' = [out EXCEPT !.words = CountTextWordsEn(txt)]
  /\ UNCHANGED <<provider, mainPc, mainAwait, req, txt, toks, file>>

\* analyzeTextImpl(txt) with an initialized tokenizer that returns toks.
TextAnalyze ==
  /\ out.report.kind = "none"
  /\ out' = [out EXCEPT !.report =
               AnalyzeTextImpl("fulfilled", txt, Tokenized(toks))]
  /\ UNCHANGED <<provider, mainPc, mainAwait, req, txt, toks, file>>

\* countTextWordsImpl(txt, 'ja') with an initialized tokenizer returning toks.
TextCountWordsJa ==
  /\ out.wordsJa.kind = "none"
  /\ out' = [out EXCEPT !.wordsJa =
               CountTextWordsJa("fulfilled", Tokenized(toks))]
  /\ UNCHANGED <<provider, mainPc, mainAwait, req, txt, toks, file>>

TextNext == TextCountChars \/ TextCountWordsEn

TextSpec == TextInit /\ [][TextNext]_vars

\* ------------------------------------------------------------ report checks
\* Every text of at most MaxChars characters.
ShortTexts == UNION {[1..n -> Chars] : n \in 0..MaxChars}

\* The text 吾輩は猫である。名前はまだ無い。 character by character.
Wagahai ==
  <<"kanji", "kanji", "hira", "kanji", "hira", "hira", "hira", "kuten",
    "kanji", "kanji", "hira", "hira", "hira", "kanji", "hira", "kuten">>

\* What the tokenizer returns in ReportSpec: one of the sample token lists.
SampleTokenizations == {in.tokens : in \in SampleInputs}

ReportInit ==
  /\ tokenizerInstance = NULL
  /\ initializingPromise = NULL
  /\ initializationError = NULL
  /\ tokenizerReady = FALSE
  /\ attempts = <<>>
  /\ mainPc = "serving"
  /\ mainAwait = NoAwait
  /\ req = [r \in Requests |-> IdleRequest]
  /\ txt \in ShortTexts \cup {Wagahai}
  /\ toks \in SampleTokenizations
  /\ file = NoFile
  /\ out = NoOutputs

ReportNext == TextAnalyze \/ TextCountChars

ReportSpec == ReportInit /\ [][ReportNext]_vars

\* ------------------------------------------------------------- token checks
\* The particles は が を に で と も へ の や か ね, by surface form.
ParticleForms ==
  <<"ha", "ga", "wo", "ni", "de", "to", "mo", "he", "no", "ya", "ka", "ne">>

Particle(k) ==
  Token("particle", "other", <<ParticleForms[k]>>, <<ParticleForms[k]>>)

\* まし, the conjugated ます: only the base form holds a marker.
TokMashi == Token("auxiliary", "other", <<"ma", "shi">>, <<"ma", "su">>)
\* ございます holds the markers ございます, ます and ご.
TokGozaimasu ==
  Token("auxiliary", "other", <<"go", "za", "i", "ma", "su">>,
        <<"go", "za", "i", "ma", "su">>)
\* 、 the comma.
TokTouten == Token("symbol", "comma", <<"ten">>, <<"ten">>)
\* 「 an opening bracket: a symbol that is no punctuation mark.
TokKakko == Token("symbol", "bracket", <<"kakko">>, <<"kakko">>)

SampleTokens ==
  {TokNeko, TokKamera, TokDesu, TokMashi, TokGozaimasu, TokKuten, TokTouten,
   TokKakko, TokBlank, Particle(1)}

\* Every token of the listed forms 1..n once, in order.
EachParticle(n) == [k \in 1..n |-> Particle(k)]

\* Token lists with more distinct particles than particle_ratio lists: each
\* of the first n forms once, then up to two more particles among them.
ParticleRuns ==
  UNION {{EachParticle(n) \o [i \in 1..m |-> Particle(f[i])] :
            f \in [1..m -> 1..n]} :
         n \in TopParticles..(TopParticles + 1), m \in 0..2}

TokenSeqs ==
  UNION {[1..n -> SampleTokens] : n \in 0..MaxTokens} \cup ParticleRuns

\* The texts of TokenSpec: empty, whitespace only, one sentence, two
\* sentences.
SampleTexts ==
  {<<>>, <<"sp", "ideosp">>, <<"kanji", "hira", "kuten">>,
   <<"kanji", "kuten", "kata", "a", "dot">>}

TokenInit ==
  /\ tokenizerInstance = NULL
  /\ initializingPromise = NULL
  /\ initializationError = NULL
  /\ tokenizerReady = FALSE
  /\ attempts = <<>>
  /\ mainPc = "serving"
  /\ mainAwait = NoAwait
  /\ req = [r \in Requests |-> IdleRequest]
  /\ txt \in SampleTexts
  /\ toks \in TokenSeqs
  /\ file = NoFile
  /\ out = NoOutputs

TokenNext == TextAnalyze \/ TextCountWordsJa

TokenSpec == TokenInit /\ [][TokenNext]_vars

\* -------------------------------------------------------------- file checks
\* Every form of filePath against every file system, readable or not.
FileCases ==
  {FileCase(form, exists, readable) :
     form \in PathForms, exists \in SUBSET Locations, readable \in BOOLEAN}

\* The content of the file, where one is read.
SampleContent == <<"kanji", "hira", "sp", "kata", "hira", "kuten">>

FileInit ==
  /\ tokenizerInstance = NULL
  /\ initializingPromise = NULL
  /\ initializationError = NULL
  /\ tokenizerReady = FALSE
  /\ attempts = <<>>
  /\ mainPc = "serving"
  /\ mainAwait = NoAwait
  /\ req = [r \in Requests |-> IdleRequest]
  /\ txt = SampleContent
  /\ toks = <<>>
  /\ file \in FileCases
  /\ out = NoOutputs

\* resolveFilePath(filePath) on its own: the location returned, or the error.
FileResolve ==
  /\ out.resolved.kind = "none"
  /\ out' = [out EXCEPT !.resolved =
               LET res == ResolveFilePath(file.form, file.exists)
               IN [isError |-> ~res.ok, kind |-> "resolved", at |-> res.at]]
  /\ UNCHANGED <<provider, mainPc, mainAwait, req, txt, toks, file>>

\* The tool count_chars on the file.
FileCountChars ==
  /\ out.chars.kind = "none"
  /\ out' = [out EXCEPT !.chars = FileTool(file, CountTextCharsImpl(txt))]
  /\ UNCHANGED <<provider, mainPc, mainAwait, req, txt, toks, file>>

FileNext == FileResolve \/ FileCountChars

FileSpec == FileInit /\ [][FileNext]_vars

\* =================================================================== claims
TokenizerKinds == {"count_words_ja", "analyze_text"}

\* Request r calls initializeTokenizer() in this step.
Acquires(r) == req[r].pc = "idle" /\ req'[r].pc = "awaiting"

PromiseOf(id) == [kind |-> "promise", id |-> id]

LastAttempt == attempts[Len(attempts)]

\* C1: single-flight initialization.  At every moment at most one build is in
\* flight and initializingPromise references its promise; a call of
\* initializeTokenizer() made while a build is in flight starts no build and
\* returns the promise of the outstanding attempt.
C1_SingleFlight ==
  /\ [](/\ Cardinality(InFlight) <= 1
        /\ \A i \in InFlight : initializingPromise = i)
  /\ [][InFlight # {} =>
          /\ Len(attempts') = Len(attempts)
          /\ \A r \in Requests :
               Acquires(r) => \A i \in InFlight : req'[r].await = PromiseOf(i)
       ]_vars

\* Two requests attached to the same in-flight build.
C1_Witness ==
  \E i \in InFlight :
    \A r \in Requests : req[r].pc = "awaiting" /\ req[r].await = PromiseOf(i)

\* The build whose outcome an awaiter of ret waits for.
BuildOf(ret) == attempts[ret.id]

\* Request r has called initializeTokenizer(): a file tool whose file could
\* not be read answers without calling it.
Awaited(r) == req[r].kind \in TokenizerKinds /\ req[r].await.kind # "none"

\* Request r has answered with the outcome of the build it waited on: with
\* the tokenizer of that build, or with the initialization failure.
ObservedOutcome(r) ==
  /\ req[r].pc = "done"
  /\ Awaited(r)
  /\ BuildOf(req[r].await).built \in {"ok", "err"}
  /\ BuildOf(req[r].await).built = "ok" =>
       /\ req[r].tokenizer = req[r].await.id
       /\ req[r].resp # InitFailedResponse
  /\ BuildOf(req[r].await).built = "err" =>
       /\ req[r].tokenizer = NULL
       /\ req[r].resp = InitFailedResponse

\* C2: requests issued against an uninitialized tokenizer before the build
\* calls back wait on one and the same build, every such request is
\* eventually answered, and every answer carries the outcome of the build the
\* request waited on: the tokenizer of that build for all of them, or the
\* initialization failure for all of them.
C2_SharedOutcome ==
  /\ [](\A r1, r2 \in Requests :
          (/\ req[r1].pc = "awaiting" /\ req[r2].pc = "awaiting"
           /\ AwaitStatus(Cur, req[r1].await) = "pending"
           /\ AwaitStatus(Cur, req[r2].await) = "pending")
          => req[r1].await = req[r2].await)
  /\ [](\A r \in Requests :
          (req[r].pc = "done" /\ Awaited(r)) => ObservedOutcome(r))
  /\ \A r \in Requests : (req[r].pc = "awaiting") ~> (req[r].pc = "done")

\* Every request slot has answered with the outcome of the same build, which
\* called back after the requests were issued.
C2_Witness ==
  \E id \in 1..Len(attempts) :
    /\ attempts[id].how = "async"
    /\ \A r \in Requests : ObservedOutcome(r) /\ req[r].await = PromiseOf(id)

\* C3: Ready is terminal.  Once tokenizerInstance is set no step replaces or
\* clears it or starts a build, and every later call of initializeTokenizer()
\* yields that tokenizer.
C3_ReadyIsTerminal ==
  [][tokenizerInstance # NULL =>
       /\ tokenizerInstance' = tokenizerInstance
       /\ Len(attempts') = Len(attempts)
       /\ \A r \in Requests :
            Acquires(r) =>
              /\ AwaitStatus(Cur, req'[r].await) = "fulfilled"
              /\ AwaitValue(req'[r].await) = tokenizerInstance
    ]_vars

\* A request that acquired the tokenizer while Ready got the stored tokenizer.
C3_Witness ==
  \E r \in Requests :
    /\ req[r].pc = "done"
    /\ req[r].await.kind = "value"
    /\ req[r].tokenizer = tokenizerInstance
    /\ tokenizerInstance # NULL

LastFailed(hows) ==
  /\ attempts # <<>>
  /\ LastAttempt.built = "err"
  /\ LastAttempt.how \in hows

\* C4: retry after an asynchronously reported failure.  After the build
\* callback has reported an error initializingPromise is null, and the next
\* call of initializeTokenizer() starts a fresh build and returns its promise.
C4_RetryAfterAsyncFailure ==
  /\ [](LastFailed({"async"}) => initializingPromise = NULL)
  /\ [][\A r \in Requests :
          (Acquires(r) /\ LastFailed({"async"}) /\ tokenizerInstance = NULL)
          => /\ Len(attempts') = Len(attempts) + 1
             /\ req'[r].await = PromiseOf(Len(attempts'))
       ]_vars

\* A request waits on a fresh build started after an asynchronous failure.
C4_Witness ==
  \E r \in Requests :
    /\ req[r].pc = "awaiting"
    /\ req[r].await.kind = "promise"
    /\ req[r].await.id > 1
    /\ attempts[req[r].await.id - 1].how = "async"
    /\ attempts[req[r].await.id - 1].built = "err"

\* C5: retry after a synchronous failure.  When the attempt fails before
\* initializeTokenizer() returns (the builder throws, or calls back with an
\* error inside the executor), initializingPromise is null after the call.
C5_SyncFailureResets ==
  LastFailed({"syncThrow", "syncCallbackError"}) => initializingPromise = NULL

CompleteReport(resp) ==
  /\ ~resp.isError
  /\ DOMAIN resp = {"isError", "kind", "totalChars", "totalSentences",
                    "totalMorphemes", "metrics"}
  /\ DOMAIN resp.metrics = MetricNames

BareError(resp) ==
  /\ resp.isError
  /\ DOMAIN resp = {"isError", "kind", "message"}

\* C6: no partial reports.  Every response of the analysis is a complete
\* report (the three counts and all nine metrics) without the error flag, or
\* an error-flagged message without any count or metric; when awaiting
\* initializeTokenizer() fails it is the error-flagged response.
C6_NoPartialReport ==
  \A r \in Requests :
    (req[r].pc = "done" /\ req[r].kind = "analyze_text") =>
      /\ CompleteReport(req[r].resp) \/ BareError(req[r].resp)
      /\ (Awaited(r) /\ AwaitStatus(Cur, req[r].await) = "rejected") =>
           req[r].resp = InitFailedResponse

\* An analysis answered after a failed initialization, another with a report.
C6_Witness ==
  \E r1, r2 \in Requests :
    /\ req[r1].pc = "done" /\ req[r1].kind = "analyze_text"
    /\ Awaited(r1)
    /\ AwaitStatus(Cur, req[r1].await) = "rejected"
    /\ req[r2].pc = "done" /\ req[r2].kind = "analyze_text"
    /\ CompleteReport(req[r2].resp)

NoBuildSucceeded ==
  \A i \in 1..Len(attempts) : attempts[i].built # "ok"

\* C7: with a loader that always fails (no build has succeeded) the failed
\* startup initialization leads main() on to starting the server, never to
\* process exit; every answered analysis or Japanese word-count request
\* carries the error flag; and handling requests never leaves the serving
\* state.
C7_FailingLoaderKeepsServing ==
  /\ [](NoBuildSucceeded =>
          \A r \in Requests :
            (req[r].pc = "done" /\ req[r].kind \in TokenizerKinds)
              => req[r].resp.isError)
  /\ [][mainPc = "awaitInit" => mainPc' \in {"awaitInit", "starting"}]_vars
  /\ [][mainPc = "serving" => mainPc' = "serving"]_vars

\* The server serves after two failed builds and has answered with an error.
C7_Witness ==
  /\ mainPc = "serving"
  /\ NoBuildSucceeded
  /\ Len(attempts) >= 2
  /\ \E r \in Requests :
       req[r].pc = "done" /\ req[r].kind = "analyze_text" /\ req[r].resp.isError

\* The characters of txt outside of set ws, and their length in code units.
Without(t, ws) == SelectSeq(t, LAMBDA c : c \notin ws)

\* C8 (as amended): the character count is the length, in UTF-16 code units,
\* of the text without the characters the class \s matches: space, tab,
\* newline and carriage return, and the other Unicode spaces such as the
\* ideographic space U+3000; removing them a second time changes nothing.
C8_CharCount ==
  out.chars.kind # "none" =>
    /\ ~out.chars.isError
    /\ out.chars.count = UnitLength(Without(txt, RegexS))
    /\ StripSpaces(StripSpaces(txt)) = StripSpaces(txt)

\* C8 as stated: only space, tab, newline and carriage return are removed.
C8_OnlyFourSpaces ==
  out.chars.kind # "none" =>
    out.chars.count = UnitLength(Without(txt, {"sp", "tab", "nl", "cr"}))

\* The count of a text that holds each kind of whitespace and a letter.
C8_Witness ==
  /\ out.chars.kind = "chars"
  /\ out.chars.count = 1
  /\ txt = <<"nl", "a", "ideosp", "tab">>

HasWord(t) == \E i \in 1..Len(t) : t[i] \notin RegexS

\* The number of maximal runs of non-whitespace characters: the positions
\* where a run begins.
NumRuns(t) ==
  Cardinality({i \in 1..Len(t) :
                 t[i] \notin RegexS /\ (i = 1 \/ t[i - 1] \in RegexS)})

\* C9: for a text with at least one non-whitespace character the English
\* word count is the number of maximal runs of non-whitespace characters,
\* whatever whitespace leads, trails or repeats.
C9_EnglishWords ==
  (out.words.kind # "none" /\ HasWord(txt)) => out.words.count = NumRuns(txt)

\* Two words behind leading whitespace with repeated whitespace between.
C9_Witness ==
  /\ out.words.kind = "words"
  /\ out.words.count = 2
  /\ txt \in {<<"sp", "a", "sp", "a">>, <<"a", "sp", "nl", "a">>}

\* C10: for the empty string and for a text of whitespace only the English
\* word count is 0.
C10_NoWordsIsZero ==
  (out.words.kind # "none" /\ ~HasWord(txt)) => out.words.count = 0

\* The analysis and the Japanese word count have answered for txt and toks.
Reported == out.report.kind = "report"
CountedJa == out.wordsJa.kind = "words"

\* C11: the Japanese word count is the number of tokens whose part-of-speech
\* tag is neither the symbol tag nor the blank tag; when every token carries
\* one of the two tags the count is 0.
C11_JapaneseWords ==
  out.wordsJa.kind # "none" =>
    /\ ~out.wordsJa.isError
    /\ out.wordsJa.count =
         Cardinality({i \in 1..Len(toks) : toks[i].pos \notin {"symbol", "blank"}})
    /\ (\A i \in 1..Len(toks) : toks[i].pos \in {"symbol", "blank"})
         => out.wordsJa.count = 0

\* A bracket, a noun and a blank: one word.
C11_Witness ==
  /\ CountedJa
  /\ toks = <<TokKakko, TokNeko, TokBlank>>
  /\ out.wordsJa.count = 1

\* Position i of t holds a character that is neither a terminator nor
\* whitespace.
Content(t, i) == t[i] \notin Terminators /\ t[i] \notin RegexS

\* The positions of t where a piece gets its first non-whitespace character:
\* every earlier such character is cut off by a terminator in between.
PieceStarts(t) ==
  {i \in 1..Len(t) :
     /\ Content(t, i)
     /\ \A j \in 1..(i - 1) :
          Content(t, j) => \E k \in (j + 1)..(i - 1) : t[k] \in Terminators}

\* C12: the sentence count is the number of pieces between terminators that
\* hold a non-whitespace character; without a terminator it is 1 for a text
\* with a non-whitespace character and 0 otherwise; the text
\* 吾輩は猫である。名前はまだ無い。 has 2 sentences.  (kuten and dot stand
\* for the six terminators, which no other pattern of the code tells apart.)
C12_SentenceCount ==
  Reported =>
    /\ out.report.totalSentences = Cardinality(PieceStarts(txt))
    /\ (\A i \in 1..Len(txt) : txt[i] \notin Terminators) =>
         out.report.totalSentences = IF HasWord(txt) THEN 1 ELSE 0
    /\ txt = Wagahai => out.report.totalSentences = 2

\* The two sentences of 吾輩は猫である。名前はまだ無い。
C12_Witness ==
  /\ Reported
  /\ txt = Wagahai
  /\ out.report.totalSentences = 2

\* The sum of the counts of a list of ratio entries.
RECURSIVE SumCounts(_)
SumCounts(entries) ==
  IF entries = <<>> THEN 0
  ELSE Head(entries).count + SumCounts(Tail(entries))

\* C13: the six script-category counts add up to the reported totalChars.
C13_ScriptSumIsTotalChars ==
  Reported =>
    SumCounts(out.report.metrics.script_type_ratio) = out.report.totalChars

\* The characters each category takes, and whitespace in none of them.
CategoryChars(type) ==
  CASE type = "hiragana" -> {"hira"}
    [] type = "katakana" -> {"kata"}
    [] type = "kanji" -> {"kanji"}
    [] type = "alphabet" -> {"a"}
    [] type = "digit" -> {"d", "fwdigit"}
    [] type = "other" -> {"kuten", "dot", "astral"}

\* C14: every character is tallied into exactly one category, hiragana,
\* katakana, CJK ideograph, ASCII letter, digit (ASCII or full-width) or
\* else other, and a whitespace character into none: each category counts
\* the characters of its class, the classes are disjoint and cover every
\* non-whitespace character, and the counts add up to the number of
\* non-whitespace characters.
C14_OneCategoryPerChar ==
  Reported =>
    LET e == out.report.metrics.script_type_ratio
    IN /\ Len(e) = 6
       /\ \A i \in 1..6 :
            e[i].count =
              Cardinality({p \in 1..Len(txt) : txt[p] \in CategoryChars(e[i].key)})
       /\ \A i, j \in 1..6 :
            i # j => CategoryChars(e[i].key) \cap CategoryChars(e[j].key) = {}
       /\ UNION {CategoryChars(e[i].key) : i \in 1..6} = Chars \ RegexS
       /\ SumCounts(e) = Len(Without(txt, RegexS))

\* A full-width digit, an ideographic space and a mark: digit 1, other 1.
C14_Witness ==
  /\ Reported
  /\ txt = <<"fwdigit", "ideosp", "kuten">>
  /\ out.report.metrics.script_type_ratio[5].count = 1
  /\ out.report.metrics.script_type_ratio[6].count = 1

\* The value of a percentage or per-sentence field is a number.
IsNumber(v) == v.form = "number"

\* C15: no ratio field is the result of a division by zero: every entry of
\* posRatio, particleRatio and scriptTypeRatio and the values of
\* vocabularyDiversity and katakanaWordRatio are formatted numbers, and a
\* field whose whole is zero is empty or 0.00.
C15_RatiosGuarded ==
  Reported =>
    LET m == out.report.metrics
    IN /\ \A i \in 1..Len(m.pos_ratio) : IsNumber(m.pos_ratio[i].value)
       /\ \A i \in 1..Len(m.particle_ratio) :
            IsNumber(m.particle_ratio[i].value)
       /\ \A i \in 1..Len(m.script_type_ratio) :
            IsNumber(m.script_type_ratio[i].value)
       /\ IsNumber(m.vocabulary_diversity)
       /\ IsNumber(m.katakana_word_ratio)
       /\ toks = <<>> =>
            /\ m.vocabulary_diversity = ZeroFixed
            /\ m.katakana_word_ratio = ZeroFixed

Abs(x) == IF x < 0 THEN -x ELSE x

\* v is the quotient num / den written with two decimals: a number within
\* half a hundredth of the quotient.
IsQuotient(v, num, den) ==
  /\ IsNumber(v)
  /\ 2 * Abs(v.hundredths * den - 100 * num) <= den

\* The tokens of toks that hold a marker of the honorific list in their
\* surface form or in their base form, each token once.
HoldsMarker(form) ==
  \E k \in 1..Len(HonorificExpressions) :
    \E a \in 1..Len(form) :
      /\ a + Len(HonorificExpressions[k]) - 1 <= Len(form)
      /\ \A d \in 1..Len(HonorificExpressions[k]) :
           form[a + d - 1] = HonorificExpressions[k][d]

HonorificTokens ==
  {i \in 1..Len(toks) :
     HoldsMarker(toks[i].surface_form) \/ HoldsMarker(toks[i].basic_form)}

PunctuationTokens ==
  {i \in 1..Len(toks) :
     toks[i].pos = "symbol" /\ toks[i].pos_detail_1 \in {"period", "comma"}}

\* C16: with no sentence each of the four per-sentence metrics is 0.00; with
\* sentences each is its numerator (totalChars, totalMorphemes, the number of
\* honorific tokens, the number of punctuation tokens) over the sentence
\* count.
C16_PerSentenceMetrics ==
  Reported =>
    LET m == out.report.metrics
        n == out.report.totalSentences
    IN /\ n = 0 =>
            /\ m.average_sentence_length = ZeroFixed
            /\ m.average_morphemes_per_sentence = ZeroFixed
            /\ m.honorific_frequency = ZeroFixed
            /\ m.punctuation_per_sentence = ZeroFixed
       /\ n > 0 =>
            /\ IsQuotient(m.average_sentence_length, out.report.totalChars, n)
            /\ IsQuotient(m.average_morphemes_per_sentence, Len(toks), n)
            /\ IsQuotient(m.honorific_frequency,
                          Cardinality(HonorificTokens), n)
            /\ IsQuotient(m.punctuation_per_sentence,
                          Cardinality(PunctuationTokens), n)

\* Two sentences, three tokens: one honorific, two punctuation marks.
C16_Witness ==
  /\ Reported
  /\ txt = <<"kanji", "kuten", "kata", "a", "dot">>
  /\ toks = <<TokDesu, TokTouten, TokKuten>>
  /\ out.report.metrics.average_sentence_length.hundredths = 250
  /\ out.report.metrics.honorific_frequency.hundredths = 50
  /\ out.report.metrics.punctuation_per_sentence.hundredths = 100

ParticleTokens == {i \in 1..Len(toks) : toks[i].pos = "particle"}

ParticleSurfaces == {toks[i].surface_form : i \in ParticleTokens}

ParticleCount(f) ==
  Cardinality({i \in ParticleTokens : toks[i].surface_form = f})

\* C17: particleRatio lists at most 10 entries, each a distinct particle
\* surface form with its count, in non-increasing order of count; a form is
\* left out only when 10 are listed, and its count is no greater than any
\* listed count; each percentage is the count over the number of all particle
\* tokens; without a particle token the field is empty.
C17_TopParticles ==
  Reported =>
    LET e == out.report.metrics.particle_ratio
        listed == {e[i].key : i \in 1..Len(e)}
    IN /\ Len(e) <= 10
       /\ Cardinality(listed) = Len(e)
       /\ listed \subseteq ParticleSurfaces
       /\ \A i \in 1..Len(e) :
            /\ e[i].count = ParticleCount(e[i].key)
            /\ IsQuotient(e[i].value, 100 * e[i].count,
                          Cardinality(ParticleTokens))
       /\ \A i, j \in 1..Len(e) : i < j => e[i].count >= e[j].count
       /\ \A f \in ParticleSurfaces \ listed :
            /\ Len(e) = 10
            /\ \A i \in 1..Len(e) : ParticleCount(f) <= e[i].count
       /\ ParticleTokens = {} => e = <<>>

\* Eleven particle forms, the last one twice: it is listed first and the
\* tenth form is left out.
C17_Witness ==
  /\ Reported
  /\ toks = EachParticle(11) \o <<Particle(11)>>
  /\ Len(out.report.metrics.particle_ratio) = 10
  /\ out.report.metrics.particle_ratio[1].key = <<"ka">>
  /\ out.report.metrics.particle_ratio[1].count = 2
  /\ \A i \in 1..10 : out.report.metrics.particle_ratio[i].key # <<"ya">>

PosTags == {toks[i].pos : i \in 1..Len(toks)}

FirstOccurrence(tag) ==
  CHOOSE i \in 1..Len(toks) :
    toks[i].pos = tag /\ \A j \in 1..(i - 1) : toks[j].pos # tag

RECURSIVE SumHundredths(_)
SumHundredths(entries) ==
  IF entries = <<>> THEN 0
  ELSE Head(entries).value.hundredths + SumHundredths(Tail(entries))

\* C18: posRatio has one entry per part-of-speech tag of the token list, in
\* order of first occurrence; the counts are the occurrences of the tags and
\* add up to totalMorphemes; with at least one token the percentages add up
\* to 100 within the rounding of the entries.
C18_PosRatio ==
  Reported =>
    LET e == out.report.metrics.pos_ratio
    IN /\ {e[i].key : i \in 1..Len(e)} = PosTags
       /\ Len(e) = Cardinality(PosTags)
       /\ \A i, j \in 1..Len(e) :
            i < j => FirstOccurrence(e[i].key) < FirstOccurrence(e[j].key)
       /\ \A i \in 1..Len(e) :
            e[i].count =
              Cardinality({p \in 1..Len(toks) : toks[p].pos = e[i].key})
       /\ SumCounts(e) = out.report.totalMorphemes
       /\ out.report.totalMorphemes = Len(toks)
       /\ Len(toks) > 0 =>
            /\ \A i \in 1..Len(e) : IsNumber(e[i].value)
            /\ 2 * Abs(SumHundredths(e) - 10000) <= Len(e)

\* A noun, a particle and another noun: noun 66.67 %, particle 33.33 %.
C18_Witness ==
  /\ Reported
  /\ toks = <<TokNeko, Particle(1), TokKamera>>
  /\ Len(out.report.metrics.pos_ratio) = 2
  /\ out.report.metrics.pos_ratio[1].key = "noun"
  /\ out.report.metrics.pos_ratio[1].value.hundredths = 6667
  /\ out.report.metrics.pos_ratio[2].value.hundredths = 3333

\* C19: the totalChars of the analysis is the number the character count
\* reports for the same text.
C19_TotalCharsIsCharCount ==
  (Reported /\ out.chars.kind = "chars") =>
    out.report.totalChars = out.chars.count

\* Both operations have answered for a text with whitespace and a character
\* of two code units.
C19_Witness ==
  /\ Reported
  /\ out.chars.kind = "chars"
  /\ txt = <<"astral", "ideosp", "a">>
  /\ out.report.totalChars = 3

\* C20: a token counts as honorific exactly when its surface form or its
\* base form contains a marker of the list, and counts once however many
\* markers it contains: the honorific frequency is the number of such tokens
\* over the sentence count, and that number never exceeds the token count.
C20_HonorificTokens ==
  (Reported /\ out.report.totalSentences > 0) =>
    /\ IsQuotient(out.report.metrics.honorific_frequency,
                  Cardinality(HonorificTokens), out.report.totalSentences)
    /\ out.report.metrics.honorific_frequency.hundredths
         <= 100 * Len(toks)
    /\ Cardinality(HonorificTokens) <= Len(toks)

\* One sentence; a token holding three markers, a token whose base form
\* alone holds one, and a noun: two honorific tokens.
C20_Witness ==
  /\ Reported
  /\ txt = <<"kanji", "hira", "kuten">>
  /\ toks = <<TokGozaimasu, TokMashi, TokNeko>>
  /\ out.report.metrics.honorific_frequency.hundredths = 200

\* Request r has its response.
Done(r) == req[r].pc = "done"

\* The measurement a response without the error flag carries, by operation.
CarriesMeasurement(kind, resp) ==
  IF kind = "count_chars" THEN resp.kind = "chars" /\ resp.count \in Nat
  ELSE IF kind = "count_words_en"
  THEN resp.kind = "words" /\ resp.language = "en" /\ resp.count \in Nat
  ELSE IF kind = "count_words_ja"
  THEN resp.kind = "words" /\ resp.language = "ja" /\ resp.count \in Nat
  ELSE kind = "analyze_text" /\ resp.kind = "report" /\ CompleteReport(resp)

ErrorTexts == {"fileRead", "initFailed", "exception"}

\* C21: every response of every operation, text-based or file-based, is an
\* error-flagged response with a text describing the error, or a response
\* without the flag carrying the measurement of its operation; a file that
\* cannot be resolved or read, a failed initialization and an exception of
\* tokenize each give the error-flagged response, and no handler ends
\* otherwise than with a response.
C21_FailuresAnswered ==
  \A r \in Requests :
    /\ Done(r) =>
         /\ req[r].resp.isError =>
              BareError(req[r].resp) /\ req[r].resp.message \in ErrorTexts
         /\ ~req[r].resp.isError =>
              CarriesMeasurement(req[r].kind, req[r].resp)
    /\ (Done(r) /\ Awaited(r) /\ AwaitStatus(Cur, req[r].await) = "rejected")
         => req[r].resp = InitFailedResponse
    /\ (Done(r) /\ req[r].kind \in TokenizerKinds /\ ~Awaited(r))
         => req[r].resp = FileErrorResponse
    /\ req[r].pc \in {"idle", "awaiting", "done"}

\* One request answered for an unreadable file, the other for a failed
\* initialization.
C21_Witness ==
  \E r1, r2 \in Requests :
    /\ Done(r1) /\ req[r1].resp = FileErrorResponse
    /\ Done(r2) /\ req[r2].resp = InitFailedResponse

\* The response of a request as a function of the request alone, given that
\* the tokenizer is there: the exception response is the tokenizer throwing.
OwnResponses(r) ==
  IF req[r].kind = "count_chars"
  THEN {FileErrorResponse, CountTextCharsImpl(req[r].input.text)}
  ELSE IF req[r].kind = "count_words_en"
  THEN {FileErrorResponse, CountTextWordsEn(req[r].input.text)}
  ELSE {FileErrorResponse, ExceptionResponse,
        ToolResponse(req[r].kind, "fulfilled", req[r].input,
                     Tokenized(req[r].input.tokens))}

\* C22: once tokenizerInstance is set, no step of any request changes
\* tokenizerInstance, initializingPromise, tokenizerReady or
\* initializationError, and the response of a request that found the
\* tokenizer set is determined by its own operation and input, whatever the
\* other requests did.
C22_ReadyIsReadOnly ==
  /\ [][tokenizerInstance # NULL => provider' = provider]_vars
  /\ [](\A r \in Requests :
          (Done(r) /\ (req[r].await.kind = "value" \/ ~Awaited(r)))
            => req[r].resp \in OwnResponses(r))

\* Two requests of different operations, both answered from the stored
\* tokenizer after an earlier attempt had failed.
C22_Witness ==
  /\ initializationError # NULL
  /\ \E r1, r2 \in Requests :
       /\ Done(r1) /\ req[r1].await.kind = "value"
       /\ req[r1].kind = "analyze_text" /\ ~req[r1].resp.isError
       /\ Done(r2) /\ req[r2].await.kind = "value"
       /\ req[r2].kind = "count_words_ja" /\ ~req[r2].resp.isError

\* C23: provided every started build calls back, every request that waits
\* for the tokenizer gets its response; a request gets its response in one
\* step from waiting or at once, the response is a measurement or an
\* error-flagged text, it does not change until it is sent, and a waiting
\* request is never dropped.
C23_OneResponse ==
  /\ \A r \in Requests : (req[r].pc = "awaiting") ~> Done(r)
  /\ [][\A r \in Requests :
          /\ req[r].pc = "awaiting" =>
               \/ req'[r] = req[r]
               \/ /\ req'[r].pc = "done"
                  /\ req'[r].kind = req[r].kind
                  /\ req'[r].resp.kind # "none"
          /\ req[r].pc = "done" =>
               req'[r] = req[r] \/ req'[r] = IdleRequest
          /\ req[r].pc = "idle" => req'[r].pc \in {"idle", "awaiting", "done"}
       ]_vars
  /\ [](\A r \in Requests :
          /\ Done(r) => req[r].resp.kind \in {"chars", "words", "report", "error"}
          /\ ~Done(r) => req[r].resp = NoOutput)

\* Two requests that waited on the same build, which called back with an
\* error, both answered.
C23_Witness ==
  \E r1, r2 \in Requests :
    /\ r1 # r2
    /\ Done(r1) /\ Done(r2)
    /\ Awaited(r1) /\ req[r1].await.kind = "promise"
    /\ req[r2].await = req[r1].await
    /\ BuildOf(req[r1].await).how = "async"
    /\ BuildOf(req[r1].await).built = "err"

\* C24: main connects the transport only after the startup attempt, the
\* first one, has settled; a request is handled only while the server is
\* serving, hence never while the startup attempt is in flight; and when
\* the startup attempt succeeded every request that asks for the tokenizer
\* is handed the stored one at once.
C24_StartupOrdering ==
  /\ mainPc \in {"starting", "serving"} =>
       /\ Len(attempts) >= 1
       /\ attempts[1].built # "pending"
       /\ attempts[1].status # "pending"
  /\ \A r \in Requests :
       /\ req[r].pc # "idle" => mainPc = "serving"
       /\ (Awaited(r) /\ attempts[1].built = "ok") =>
            /\ req[r].await = [kind |-> "value", id |-> 1]
            /\ AwaitStatus(Cur, req[r].await) = "fulfilled"

\* The startup attempt succeeded after a suspension, and a request was
\* answered from the stored tokenizer.
C24_Witness ==
  /\ mainPc = "serving"
  /\ attempts[1].how = "async" /\ attempts[1].built = "ok"
  /\ \E r \in Requests :
       Done(r) /\ Awaited(r) /\ req[r].tokenizer = 1 /\ ~req[r].resp.isError

\* The locations the documentation lists, in order, for a path of the form.
SearchOrder(form) ==
  IF form = "wsl"
  THEN <<"converted", "asGiven", "cwd", "home", "desktop", "documents">>
  ELSE IF form = "absolute"
  THEN <<"asGiven", "cwd", "home", "desktop", "documents">>
  ELSE <<"cwd", "home", "desktop", "documents">>

Listed(form) == {SearchOrder(form)[i] : i \in DOMAIN SearchOrder(form)}

FirstExisting(form, exists) ==
  LET order == SearchOrder(form)
      hits == {i \in DOMAIN order : order[i] \in exists}
  IN IF hits = {} THEN NotFound
     ELSE Found(order[CHOOSE i \in hits : \A j \in hits : i <= j])

\* C25: file path resolution tries, in order, the path as given when
\* absolute, the current working directory, the home directory, Desktop and
\* Documents, and uses the first location where the file exists; a bare file
\* name that exists only under home, Desktop or Documents is resolved and
\* read.
C25_SearchesUserDirectories ==
  /\ out.resolved.kind = "resolved" =>
       LET res == FirstExisting(file.form, file.exists)
       IN /\ out.resolved.isError = ~res.ok
          /\ out.resolved.at = res.at
  /\ (out.chars.kind # "none" /\ file.readable
        /\ file.exists \cap Listed(file.form) # {})
       => ~out.chars.isError

\* C26: vocabulary_diversity is the number of distinct base forms among the
\* tokens over the number of tokens, times 100, to two decimals; for a
\* non-empty token list it is greater than 0 and at most 100.
C26_VocabularyDiversity ==
  (Reported /\ toks # <<>>) =>
    LET v == out.report.metrics.vocabulary_diversity
    IN /\ IsQuotient(v,
            100 * Cardinality({toks[i].basic_form : i \in 1..Len(toks)}),
            out.report.totalMorphemes)
       /\ out.report.totalMorphemes = Len(toks)
       /\ v.hundredths > 0
       /\ v.hundredths <= 10000

\* Three tokens, two of them the same word: 2/3, reported as 66.67.
C26_Witness ==
  /\ Reported
  /\ Len(toks) = 3
  /\ Cardinality({toks[i].basic_form : i \in 1..Len(toks)}) = 2
  /\ out.report.metrics.vocabulary_diversity.hundredths = 6667

\* Request r resumes in this step.
Resumes(r) == req[r].pc = "awaiting" /\ req'[r].pc = "done"

\* C27: a request for the Japanese word count or the analysis that goes on
\* to tokenize (it does not answer with the initialization failure) holds the
\* tokenizer of a build that succeeded, the one stored in tokenizerInstance,
\* with tokenizerReady set; a request whose await failed answers without a
\* tokenizer.
C27_TokenizeOnBuiltHandle ==
  /\ [][\A r \in Requests :
          (Resumes(r) /\ req'[r].resp # InitFailedResponse) =>
            /\ req'[r].tokenizer # NULL
            /\ req'[r].tokenizer = tokenizerInstance
            /\ tokenizerReady
            /\ attempts[req'[r].tokenizer].built = "ok"
       ]_vars
  /\ [](\A r \in Requests :
          (Done(r) /\ req[r].tokenizer = NULL /\ Awaited(r))
            => req[r].resp = InitFailedResponse)

\* A request that waited on a promise while the build was in flight and
\* then tokenized, after an earlier attempt had failed.
C27_Witness ==
  \E r \in Requests :
    /\ Done(r) /\ req[r].await.kind = "promise"
    /\ req[r].tokenizer # NULL
    /\ req[r].await.id > 1
    /\ req[r].resp.kind \in {"words", "report"}
    /\ initializationError # NULL

SyncKinds == {"count_chars", "count_words_en"}

\* Request r is handled in this step by an operation without suspension.
HandledAtOnce(r) ==
  req[r].pc = "idle" /\ req'[r].pc = "done" /\ req'[r].kind \in SyncKinds

\* C28: the character count and the English word count never call
\* initializeTokenizer(): whatever the provider state, the step that handles
\* them leaves tokenizerInstance, initializingPromise, tokenizerReady,
\* initializationError and the attempts unchanged, starts no wait, and the
\* operation answers with its count (the only error is that of the file that
\* could not be read).
C28_CountsIgnoreProvider ==
  [][\A r \in Requests :
       HandledAtOnce(r) =>
         /\ provider' = provider
         /\ req'[r].await = NoAwait
         /\ req'[r].tokenizer = NULL
         /\ req'[r].resp # FileErrorResponse =>
              /\ ~req'[r].resp.isError
              /\ req'[r].resp.count \in Nat
    ]_vars

\* A count answered while a build is in flight and the other request waits
\* for it.
C28_Witness ==
  /\ InFlight # {}
  /\ \E r \in Requests :
       Done(r) /\ req[r].kind = "count_chars" /\ ~req[r].resp.isError
  /\ \E r \in Requests : req[r].pc = "awaiting"

\* C29: tokenizerReady is true exactly when tokenizerInstance is non-null;
\* the step that stores the tokenizer sets the flag, and once the tokenizer
\* is stored neither the tokenizer nor the flag changes.
C29_ReadyFlag ==
  /\ [](tokenizerReady <=> tokenizerInstance # NULL)
  /\ [][/\ (tokenizerInstance = NULL /\ tokenizerInstance' # NULL)
             => tokenizerReady'
        /\ tokenizerInstance # NULL =>
             /\ tokenizerInstance' = tokenizerInstance
             /\ tokenizerReady'
       ]_vars

\* The flag set by a retry, after the failed first attempt had written it
\* false.
C29_Witness ==
  /\ tokenizerReady
  /\ Len(attempts) >= 2
  /\ attempts[1].built = "err"
  /\ tokenizerInstance = Len(attempts)

AnyFailed == \E i \in 1..Len(attempts) : attempts[i].built = "err"

\* C30: initializationError is non-null exactly when some build attempt has
\* failed; it is written only with a failed attempt, and never cleared, so
\* after a failed attempt and a successful retry the tokenizer is stored
\* while the earlier error is still held.
C30_ErrorIsSticky ==
  /\ [](initializationError # NULL <=> AnyFailed)
  /\ [](initializationError # NULL =>
          attempts[initializationError].built = "err")
  /\ [][/\ initializationError # NULL => initializationError' # NULL
        /\ initializationError' # initializationError =>
             /\ attempts'[initializationError'].built = "err"
             /\ initializationError' \in DOMAIN attempts =>
                  attempts[initializationError'].built = "pending"
       ]_vars

\* Ready, holding the error of the earlier attempt.
C30_Witness ==
  /\ tokenizerInstance # NULL
  /\ initializationError # NULL
  /\ initializationError < tokenizerInstance
  /\ attempts[tokenizerInstance].status = "fulfilled"

====
